---- MODULE Spec2Model ----
(***************************************************************************)
(* PX8 host front-end (src/frontend/mod.rs): the frame-paced main loop of  *)
(* SdlFrontend::run_cartridge, its event drain, the input maps and the     *)
(* FrameTimes clock.  The engine (px8), the players state (config) and the *)
(* renderer live in other modules of the repository; they are modelled     *)
(* from their documented contract.                                         *)
(***************************************************************************)
EXTENDS Integers, Sequences, FiniteSets, TLC

(***************************************************************************)
(* Bounds of the model.                                                    *)
(***************************************************************************)
MaxFrames == 3

MaxQueue == 1

MaxEvents == 3

\* Iterations of 'main in the pacing run.
PaceFrames == 60

(***************************************************************************)
(* Program constants.                                                      *)
(***************************************************************************)
\* Duration::from_secs(1) / 60, in integer nanoseconds.
NanosPerSec == 1000000000

FramesPerSec == 60

frame_duration == NanosPerSec \div FramesPerSec

\* px8::SCREEN_WIDTH, px8::SCREEN_HEIGHT
SCREEN_WIDTH == 128

SCREEN_HEIGHT == 128

\* i16 range of a controller axis value.
I16Min == -32768

I16Max == 32767

(***************************************************************************)
(* PX8Key, players and the get_value_quick slots.                          *)
(***************************************************************************)
PX8Key == {"Right", "Left", "Up", "Down", "O", "X", "Pause", "Enter"}

Players == {0, 1}

None == "None"

\* slot numbers of get_value_quick: 0=Left 1=Right 2=Up 3=Down 4=O 5=X
\* 6=Enter 7=Pause
SlotKey(slot) ==
    CASE slot = 0 -> "Left"
      [] slot = 1 -> "Right"
      [] slot = 2 -> "Up"
      [] slot = 3 -> "Down"
      [] slot = 4 -> "O"
      [] slot = 5 -> "X"
      [] slot = 6 -> "Enter"
      [] slot = 7 -> "Pause"

Slots == 0..7

(***************************************************************************)
(* InputMap: pure functions.                                               *)
(***************************************************************************)
\* map_keycode(key) -> <<Option<PX8Key>, player>>
map_keycode(key) ==
    CASE key = "Right"   -> <<"Right", 0>>
      [] key = "Left"    -> <<"Left", 0>>
      [] key = "Up"      -> <<"Up", 0>>
      [] key = "Down"    -> <<"Down", 0>>
      [] key = "Z"       -> <<"O", 0>>
      [] key = "C"       -> <<"O", 0>>
      [] key = "N"       -> <<"O", 0>>
      [] key = "X"       -> <<"X", 0>>
      [] key = "V"       -> <<"X", 0>>
      [] key = "M"       -> <<"X", 0>>
      [] key = "F"       -> <<"Right", 1>>
      [] key = "S"       -> <<"Left", 1>>
      [] key = "E"       -> <<"Up", 1>>
      [] key = "D"       -> <<"Down", 1>>
      [] key = "LShift"  -> <<"O", 1>>
      [] key = "Tab"     -> <<"O", 1>>
      [] key = "A"       -> <<"X", 1>>
      [] key = "Q"       -> <<"X", 1>>
      [] key = "P"       -> <<"Pause", 0>>
      [] key = "KpEnter" -> <<"Enter", 0>>
      [] OTHER           -> <<None, 0>>

\* map_button(button) -> Option<PX8Key>
map_button(button) ==
    CASE button = "DPadRight" -> "Right"
      [] button = "DPadLeft"  -> "Left"
      [] button = "DPadUp"    -> "Up"
      [] button = "DPadDown"  -> "Down"
      [] button = "A"         -> "O"
      [] button = "B"         -> "X"
      [] OTHER                -> None

\* Option<(PX8Key, bool)>::None
NoAxis == <<None, FALSE>>

\* Mutant: the strong negative band stops one short of -16384.
AxisBands_StrongBoundaryOff(neg, pos, value) ==
    CASE value >= I16Min /\ value < -16384 -> <<neg, TRUE>>
      [] value >= -16384 /\ value <= -1    -> <<neg, FALSE>>
      [] value >= 0 /\ value <= 16383      -> <<pos, FALSE>>
      [] value >= 16384 /\ value <= I16Max -> <<pos, TRUE>>
      [] OTHER                             -> NoAxis

\* Mutant: the weak positive band yields the negative key.
AxisBands_WeakPositiveAsNegative(neg, pos, value) ==
    CASE value >= I16Min /\ value <= -16384 -> <<neg, TRUE>>
      [] value >= -16383 /\ value <= -1     -> <<neg, FALSE>>
      [] value >= 0 /\ value <= 16383       -> <<neg, FALSE>>
      [] value >= 16384 /\ value <= I16Max  -> <<pos, TRUE>>
      [] OTHER                              -> NoAxis

\* The inner match of map_axis on the i16 value: the first arm whose range
\* holds the value, negative key below zero and positive key from zero up.
AxisBands(neg, pos, value) ==
    CASE value >= I16Min /\ value <= -16384 -> <<neg, TRUE>>
      [] value >= -16383 /\ value <= -1     -> <<neg, FALSE>>
      [] value >= 0 /\ value <= 16383       -> <<pos, FALSE>>
      [] value >= 16384 /\ value <= I16Max  -> <<pos, TRUE>>
      [] OTHER                              -> NoAxis

\* map_axis(axis, value) -> Option<(PX8Key, bool)>
map_axis(axis, value) ==
    CASE axis = "LeftX" -> AxisBands("Left", "Right", value)
      [] axis = "LeftY" -> AxisBands("Up", "Down", value)
      [] OTHER          -> NoAxis

(***************************************************************************)
(* config::Players (documented contract): per (player, key) a pressed flag *)
(* and the press timestamp, plus the mouse fields.                         *)
(***************************************************************************)
KeyStateNew == [pressed |-> FALSE, t_pressed |-> 0]

PlayersNew ==
    [keys  |-> [p \in Players |-> [k \in PX8Key |-> KeyStateNew]],
     mx    |-> 0,
     my    |-> 0,
     mouse |-> <<0, 0>>]

\* key_down(player, key, is_repeat, now): press unless already pressed and
\* the event is no repeat (debounce).
key_down(pl, player, key, repeat, t) ==
    IF ~pl.keys[player][key].pressed \/ repeat
    THEN [pl EXCEPT !.keys[player][key] = [pressed |-> TRUE, t_pressed |-> t]]
    ELSE pl

\* key_up(player, key)
key_up(pl, player, key) ==
    [pl EXCEPT !.keys[player][key].pressed = FALSE]

\* key_direc_hor_up(player): clears Left and Right in one step.
key_direc_hor_up(pl, player) ==
    key_up(key_up(pl, player, "Left"), player, "Right")

\* key_direc_ver_up(player): clears Up and Down in one step.
key_direc_ver_up(pl, player) ==
    key_up(key_up(pl, player, "Up"), player, "Down")

\* get_value_quick(player, slot) -> 0 | 1
get_value_quick(pl, player, slot) ==
    IF pl.keys[player][SlotKey(slot)].pressed THEN 1 ELSE 0

set_mouse_x(pl, x) == [pl EXCEPT !.mx = x]

set_mouse_y(pl, y) == [pl EXCEPT !.my = y]

set_mouse_state(pl, raw) == [pl EXCEPT !.mouse = raw]

\* First auto-repeat threshold of Players::update: 400 ms.
FirstRepeat == 400 * (NanosPerSec \div 1000)

\* update(elapsed_time): a key held longer than the first-repeat threshold
\* gets a virtual repeat press, key_down(p, k, true, elapsed_time); the
\* pressed flags are left as they are.
players_update(pl, elapsed) ==
    [pl EXCEPT !.keys =
        [p \in Players |-> [k \in PX8Key |->
            IF pl.keys[p][k].pressed
               /\ elapsed - pl.keys[p][k].t_pressed > FirstRepeat
            THEN [pressed |-> TRUE, t_pressed |-> elapsed]
            ELSE pl.keys[p][k]]]]

(***************************************************************************)
(* px8 engine (documented contract): the state discriminator, the          *)
(* recording flag and the end flag the VM sets.                            *)
(***************************************************************************)
Px8New == [state |-> "RUN", recording |-> FALSE, end |-> FALSE]

pause(px) == [px EXCEPT !.state = "PAUSE"]

is_recording(px) == px.recording

start_record(px) == [px EXCEPT !.recording = TRUE]

stop_record(px) == [px EXCEPT !.recording = FALSE]

is_end(px) == px.end

\* update_pause(enter, up, down): pause-menu navigation; a selection made
\* with enter may resume the cartridge (engine-internal).
update_pause(px, enter, up, down) ==
    IF enter THEN {px, [px EXCEPT !.state = "RUN"]} ELSE {px}

\* call_update(): runs the cartridge's update callback; the VM may request
\* shutdown, which is_end() then reports.
call_update(px) == {px, [px EXCEPT !.end = TRUE]}

(***************************************************************************)
(* Platform events.                                                        *)
(***************************************************************************)
Ev(type, code, value, repeat) ==
    [type |-> type, code |-> code, value |-> value, repeat |-> repeat]

KeyDown(k, repeat) == Ev("KeyDown", k, 0, repeat)

KeyUp(k) == Ev("KeyUp", k, 0, FALSE)

ButtonDown(b) == Ev("ControllerButtonDown", b, 0, FALSE)

ButtonUp(b) == Ev("ControllerButtonUp", b, 0, FALSE)

AxisMotion(axis, v) == Ev("ControllerAxisMotion", axis, v, FALSE)

Plain(type) == Ev(type, "", 0, FALSE)

\* Events with no arm of their own besides logging.
LoggedTypes ==
    {"ControllerDeviceAdded", "JoyAxisMotion", "JoyButtonDown", "JoyButtonUp",
     "JoyHatMotion"}

\* The events the environment sends to exercise the lifecycle: every arm of
\* the drain and every hotkey that acts on the engine.
KeyEvents ==
    {KeyDown(k, FALSE) : k \in {"P", "KpEnter", "Escape", "F4", "F5", "F6",
                                 "Space"}}
    \cup {KeyUp("P"), KeyDown("Space", TRUE)}

PadEvents ==
    {ButtonDown("DPadLeft"), ButtonUp("DPadLeft"), AxisMotion("LeftX", 30000)}

OtherEvents == {Plain("Quit"), Plain("JoyButtonDown")}

Events == KeyEvents \cup PadEvents \cup OtherEvents

\* The events the environment sends to exercise the input routing: keyboard,
\* controller buttons and both mapped axes on the same keys, both players.
InputEvents ==
    {KeyDown("Left", FALSE), KeyUp("Left"), KeyDown("F", FALSE), KeyUp("F"),
     KeyDown("Z", TRUE), KeyDown("Tab", FALSE),
     ButtonDown("DPadLeft"), ButtonUp("DPadLeft"), ButtonDown("Start")}
    \cup {AxisMotion("LeftX", v) : v \in {-30000, -100, 100, 128, 30000}}
    \cup {AxisMotion("LeftY", v) : v \in {-30000, -129, 128, 30000}}
    \cup {AxisMotion("RightX", 30000)}

\* The window opens at SCREEN * scale.factor() pixels; the user resizes it.
InitialWindow == <<2 * SCREEN_WIDTH, 2 * SCREEN_HEIGHT>>

WindowSizes == {<<192, 320>>, <<64, 64>>}

\* Wall-clock time the cartridge load and one engine tick take.
LoadDelays == {3 * frame_duration}

WorkDelays == {frame_duration \div 4}

\* An entry of the log of operations a step invokes.
Call(op, args) == [op |-> op, args |-> args]

(***************************************************************************)
(* Mutex guards.  Every operation on the players state is invoked as       *)
(* players_clone.lock().unwrap().op(..), the Info write as                 *)
(* self.info.lock().unwrap().elapsed_time = .., and the blit as            *)
(* renderer.blit(&self.px8.screen.lock().unwrap().back_buffer): the guard  *)
(* is a temporary of the statement and is dropped where the statement ends.*)
(***************************************************************************)
PlayersOps ==
    {"key_down", "key_up", "key_direc_hor_up", "key_direc_ver_up",
     "get_value_quick", "set_mouse_x", "set_mouse_y", "set_mouse_state",
     "players.update"}

\* The mutex the statement that invokes op locks, None when it locks none.
LockOf(op) ==
    IF op \in PlayersOps THEN "players"
    ELSE IF op = "info.elapsed_time" THEN "info"
    ELSE IF op = "blit" THEN "screen"
    ELSE None

\* Mutant: the guard is bound by a let and lives to the end of the block.
GuardScope_ToEndOfBlock(cs, i) == Len(cs)

\* The last operation of the sequence cs that runs while the guard taken for
\* operation i is alive: the guard is dropped with its own statement.
GuardScope(cs, i) == i

\* The mutexes the thread holds while operation j of cs runs.
Held(cs, j) ==
    {LockOf(cs[i].op) :
        i \in {k \in 1..j : LockOf(cs[k].op) # None /\ j <= GuardScope(cs, k)}}

(***************************************************************************)
(* State.                                                                  *)
(***************************************************************************)
VARIABLES
    pc,                \* position of the front-end thread
    frame,             \* number of iterations of 'main started
    editor,            \* the editor argument of main / run_cartridge
    now,               \* wall clock, nanoseconds
    times,             \* FrameTimes: last_time, target_time
    start_time,        \* SdlFrontend.start_time
    elapsed_time,      \* SdlFrontend.elapsed_time
    info_elapsed_time, \* Info.elapsed_time
    players,           \* config::Players shared with the engine
    px8,               \* the engine
    window,            \* size of the OS window
    dims,              \* renderer dimensions (get_dimensions)
    queue,             \* platform events pending in the event pump
    arrived,           \* number of events sent so far
    calls,             \* operations invoked by the last step, in order
    probe,             \* a pure function applied on its own: input and result
    held               \* observer: the player-0 directions the keyboard and the
                       \* stick are holding, as the drained events tell

vars ==
    <<pc, frame, editor, now, times, start_time, elapsed_time,
      info_elapsed_time, players, px8, window, dims, queue, arrived, calls,
      probe, held>>

(***************************************************************************)
(* FrameTimes                                                              *)
(***************************************************************************)
\* FrameTimes::new(frame_duration)
FrameTimes_new(t) == [last_time |-> t, target_time |-> t + frame_duration]

\* Mutant: reset() anchors the target at the instant of the call.
FrameTimes_reset_NoLead(ft, t) == [last_time |-> t, target_time |-> t]

\* FrameTimes::reset()
FrameTimes_reset(ft, t) == [last_time |-> t, target_time |-> t + frame_duration]

\* Mutant: a late target is clamped to the instant of the call.
FrameTimes_update_Clamped(ft, t) ==
    [last_time |-> t,
     target_time |-> IF ft.target_time + frame_duration < t THEN t
                     ELSE ft.target_time + frame_duration]

\* FrameTimes::update(): the clock after the call; the delta returned is
\* t - ft.last_time.
FrameTimes_update(ft, t) ==
    [last_time |-> t, target_time |-> ft.target_time + frame_duration]

FrameTimes_delta(ft, t) == t - ft.last_time

\* Mutant: a late frame sleeps a whole frame_duration to catch up.
FrameTimes_limit_CatchUp(ft, t) ==
    IF t < ft.target_time THEN ft.target_time - t ELSE frame_duration

\* FrameTimes::limit(): the duration slept, 0 when the frame is late.
FrameTimes_limit(ft, t) ==
    IF t < ft.target_time THEN ft.target_time - t ELSE 0

\* No pure function is under probe while the front-end runs.
NoProbe == [fn |-> "none", axis |-> "", value |-> 0, done |-> FALSE,
            out |-> <<None, FALSE>>]

(***************************************************************************)
(* Observer of the input sources: which directions of player 0 the         *)
(* keyboard holds down (KeyDown seen, no KeyUp since) and which direction  *)
(* the stick holds (last motion on the axis was in a strong band).         *)
(***************************************************************************)
Directions == {"Left", "Right", "Up", "Down"}

NoneHeld == [kbd |-> {}, axis |-> {}]

KbdDirection(code) ==
    LET m == map_keycode(code)
    IN  IF m[1] \in Directions /\ m[2] = 0 THEN {m[1]} ELSE {}

HeldAfterKeyDown(h, code) == [h EXCEPT !.kbd = @ \cup KbdDirection(code)]

HeldAfterKeyUp(h, code) == [h EXCEPT !.kbd = @ \ KbdDirection(code)]

HeldAfterAxis(h, axis, v) ==
    LET both == IF axis = "LeftX" THEN {"Left", "Right"}
                ELSE IF axis = "LeftY" THEN {"Up", "Down"} ELSE {}
        dir == IF axis = "LeftX" THEN (IF v < 0 THEN "Left" ELSE "Right")
               ELSE (IF v < 0 THEN "Up" ELSE "Down")
        strong == v <= -16384 \/ v >= 16384
    IN  IF both = {} THEN h
        ELSE [h EXCEPT !.axis = (@ \ both) \cup (IF strong THEN {dir} ELSE {})]

(***************************************************************************)
(* SdlFrontend::init: the state after construction.                        *)
(***************************************************************************)
Init ==
    /\ pc = "init"
    /\ frame = 0
    /\ editor \in BOOLEAN
    /\ now = 0
    /\ times = FrameTimes_new(0)
    /\ start_time = 0
    /\ elapsed_time = 0
    /\ info_elapsed_time = 0
    /\ players = PlayersNew
    /\ px8 = Px8New
    /\ window = InitialWindow
    /\ dims = window
    /\ queue = <<>>
    /\ arrived = 0
    /\ calls = <<>>
    /\ probe = NoProbe
    /\ held = NoneHeld

Running == pc \notin {"exited", "panicked"}

(***************************************************************************)
(* Environment: the platform queues an event; the user resizes the window. *)
(***************************************************************************)
\* The event pump is read only in the drain: an event that arrives at any
\* other moment is seen exactly as one that arrives during the engine tick.
Arrive(e) ==
    /\ pc \in {"drain", "tick"}
    /\ Len(queue) < MaxQueue
    /\ arrived < MaxEvents
    /\ queue' = Append(queue, e)
    /\ arrived' = arrived + 1
    /\ UNCHANGED <<held, probe, pc, frame, editor, now, times, start_time, elapsed_time,
                   info_elapsed_time, players, px8, window, dims, calls>>

Resize(size) ==
    /\ pc \in {"drain", "tick"}
    /\ Len(queue) < MaxQueue
    /\ arrived < MaxEvents
    /\ size # window
    /\ window' = size
    /\ queue' = Append(queue, Plain("SizeChanged"))
    /\ arrived' = arrived + 1
    /\ UNCHANGED <<held, probe, pc, frame, editor, now, times, start_time, elapsed_time,
                   info_elapsed_time, players, px8, dims, calls>>

(***************************************************************************)
(* SdlFrontend::main and the start of run_cartridge.                       *)
(***************************************************************************)
Main ==
    /\ pc = "init"
    /\ start_time' = now
    /\ times' = FrameTimes_reset(times, now)
    /\ pc' = "load"
    /\ calls' = <<>>
    /\ UNCHANGED <<held, probe, frame, editor, now, elapsed_time, info_elapsed_time,
                   players, px8, window, dims, queue, arrived>>

\* px8.init, load_cartridge, controller and joystick enumeration, call_init.
LoadCartridge(d) ==
    /\ pc = "load"
    /\ now' = now + d
    /\ calls' = <<Call("init", <<>>), Call("load_cartridge", <<editor>>),
                  Call("call_init", <<>>)>>
    /\ pc' = "loop"
    /\ UNCHANGED <<held, probe, frame, editor, times, start_time, elapsed_time,
                   info_elapsed_time, players, px8, window, dims, queue, arrived>>

(***************************************************************************)
(* 'main loop: FrameTimes::update and the mouse read.                      *)
(***************************************************************************)
\* Positions the mouse can have inside the window.
RawMouse(size) == {<<size[1] - 1, size[2] - 1>>}

\* width as i32 / SCREEN_WIDTH as i32 and height as i32 / SCREEN_HEIGHT as i32
MouseDivX(d) == d[1] \div SCREEN_WIDTH

MouseDivY(d) == d[2] \div SCREEN_HEIGHT

\* set_mouse_x, set_mouse_y, set_mouse_state of one frame, when neither
\* divisor is zero.
MouseWrite(pl, raw, d) ==
    set_mouse_state(
        set_mouse_y(set_mouse_x(pl, raw[1] \div MouseDivX(d)),
                    raw[2] \div MouseDivY(d)),
        raw)

\* The operations of the mouse read; a division by zero panics while the
\* argument of set_mouse_x or set_mouse_y is evaluated, before the call.
MouseCalls(raw, d) ==
    <<Call("mouse_state", <<>>), Call("get_dimensions", <<>>)>>
    \o (IF MouseDivX(d) = 0 THEN <<>>
        ELSE <<Call("set_mouse_x", <<raw[1] \div MouseDivX(d)>>)>>
             \o (IF MouseDivY(d) = 0 THEN <<>>
                 ELSE <<Call("set_mouse_y", <<raw[2] \div MouseDivY(d)>>),
                        Call("set_mouse_state", <<raw>>)>>))

\* One iteration of 'main begins; the run is cut after maxf iterations.
FrameBegin(maxf) ==
    /\ pc = "loop"
    /\ frame < maxf
    /\ frame' = frame + 1
    /\ times' = FrameTimes_update(times, now)
    /\ \E raw \in RawMouse(window) :
          /\ IF MouseDivX(dims) = 0
             THEN \* integer division by zero: the thread panics
                  /\ pc' = "panicked"
                  /\ players' = players
             ELSE IF MouseDivY(dims) = 0
             THEN /\ pc' = "panicked"
                  /\ players' = set_mouse_x(players, raw[1] \div MouseDivX(dims))
             ELSE /\ pc' = "drain"
                  /\ players' = MouseWrite(players, raw, dims)
          /\ calls' = <<Call("times.update", <<FrameTimes_delta(times, now)>>)>>
                      \o MouseCalls(raw, dims)
    /\ UNCHANGED <<held, probe, editor, now, start_time, elapsed_time, info_elapsed_time,
                   px8, window, dims, queue, arrived>>

FrameStart == FrameBegin(MaxFrames)

(***************************************************************************)
(* Event drain: for event in self.event_pump.poll_iter(), one arm a step.  *)
(***************************************************************************)
\* Event::Quit => break 'main
HandleQuit ==
    /\ pc = "drain" /\ queue # <<>>
    /\ Head(queue).type = "Quit"
    /\ queue' = Tail(queue)
    /\ pc' = "exited"
    /\ calls' = <<>>
    /\ UNCHANGED <<held, probe, frame, editor, now, times, start_time, elapsed_time,
                   info_elapsed_time, players, px8, window, dims, arrived>>

\* Mutant: the Escape arm is shadowed by the general KeyDown arm.
IsEscape_Shadowed(e) == FALSE

IsEscape(e) == e.type = "KeyDown" /\ e.code = "Escape"

\* Event::KeyDown { keycode: Some(Escape) } => break 'main
HandleEscape ==
    /\ pc = "drain" /\ queue # <<>>
    /\ IsEscape(Head(queue))
    /\ queue' = Tail(queue)
    /\ pc' = "exited"
    /\ calls' = <<>>
    /\ UNCHANGED <<held, probe, frame, editor, now, times, start_time, elapsed_time,
                   info_elapsed_time, players, px8, window, dims, arrived>>

\* Event::Window { SizeChanged } => renderer.update_dimensions()
HandleSizeChanged ==
    /\ pc = "drain" /\ queue # <<>>
    /\ Head(queue).type = "SizeChanged"
    /\ queue' = Tail(queue)
    /\ dims' = window
    /\ calls' = <<Call("update_dimensions", <<>>)>>
    /\ UNCHANGED <<held, probe, pc, frame, editor, now, times, start_time, elapsed_time,
                   info_elapsed_time, players, px8, window, arrived>>

\* if let (Some(key), player) = map_keycode(keycode) { key_down(...) }
KeyDownPlayers(pl, e, t) ==
    LET m == map_keycode(e.code)
    IN  IF m[1] # None THEN key_down(pl, m[2], m[1], e.repeat, t) ELSE pl

KeyDownCalls(e, t) ==
    LET m == map_keycode(e.code)
    IN  IF m[1] # None
        THEN <<Call("key_down", <<m[2], m[1], e.repeat, t>>)>>
        ELSE <<>>

\* The hotkey switch on the keycode: the engine after it.
HotkeyPx8(px, code, ed) ==
    IF code = "F4"
    THEN IF ~is_recording(px) THEN start_record(px) ELSE stop_record(px)
    ELSE px

\* Mutant: F4 always starts a recording.
HotkeyCalls_F4AlwaysStarts(px, code, ed) ==
    IF code = "F2" THEN <<Call("toggle_info_overlay", <<>>)>>
    ELSE IF code = "F3" THEN <<Call("screenshot", <<"screenshot-<stamp>.png">>)>>
    ELSE IF code = "F4" THEN <<Call("start_record", <<"record-<stamp>.gif">>)>>
    ELSE IF code = "F5"
    THEN IF ed THEN <<Call("save_current_cartridge", <<"<stamp>">>)>> ELSE <<>>
    ELSE IF code = "F6" /\ ed
    THEN <<Call("switch_code", <<"filename">>), Call("call_init", <<>>)>>
    ELSE <<>>

\* Mutant: F5 saves whatever the editor flag.
HotkeyCalls_F5Unguarded(px, code, ed) ==
    IF code = "F2" THEN <<Call("toggle_info_overlay", <<>>)>>
    ELSE IF code = "F3" THEN <<Call("screenshot", <<"screenshot-<stamp>.png">>)>>
    ELSE IF code = "F4"
    THEN IF ~is_recording(px)
         THEN <<Call("start_record", <<"record-<stamp>.gif">>)>>
         ELSE <<Call("stop_record", <<"scale.factor">>)>>
    ELSE IF code = "F5" THEN <<Call("save_current_cartridge", <<"<stamp>">>)>>
    ELSE IF code = "F6" /\ ed
    THEN <<Call("switch_code", <<"filename">>), Call("call_init", <<>>)>>
    ELSE <<>>

\* The hotkey switch on the keycode: the engine operations it invokes.
HotkeyCalls(px, code, ed) ==
    IF code = "F2" THEN <<Call("toggle_info_overlay", <<>>)>>
    ELSE IF code = "F3" THEN <<Call("screenshot", <<"screenshot-<stamp>.png">>)>>
    ELSE IF code = "F4"
    THEN IF ~is_recording(px)
         THEN <<Call("start_record", <<"record-<stamp>.gif">>)>>
         ELSE <<Call("stop_record", <<"scale.factor">>)>>
    ELSE IF code = "F5"
    THEN IF ed THEN <<Call("save_current_cartridge", <<"<stamp>">>)>> ELSE <<>>
    ELSE IF code = "F6" /\ ed
    THEN <<Call("switch_code", <<"filename">>), Call("call_init", <<>>)>>
    ELSE <<>>

\* Mutant: the pause check reads the Pause slot of player 1.
PauseCheck_PlayerOne(pl) == get_value_quick(pl, 1, 7) = 1

\* Mutant: the pause check reads slot 6 (Enter).
PauseCheck_EnterSlot(pl) == get_value_quick(pl, 0, 6) = 1

\* let pause = get_value_quick(0, 7) == 1; if pause { self.px8.pause(); }
PauseCheck(pl) == get_value_quick(pl, 0, 7) = 1

\* Event::KeyDown { keycode: Some(keycode), repeat }
HandleKeyDown ==
    /\ pc = "drain" /\ queue # <<>>
    /\ LET e == Head(queue)
           pl == KeyDownPlayers(players, e, elapsed_time)
           px == HotkeyPx8(px8, e.code, editor)
       IN  /\ e.type = "KeyDown" /\ e.code # None /\ ~IsEscape(e)
           /\ players' = pl
           /\ px8' = IF PauseCheck(pl) THEN pause(px) ELSE px
           /\ calls' = KeyDownCalls(e, elapsed_time)
                       \o HotkeyCalls(px8, e.code, editor)
                       \o <<Call("get_value_quick", <<0, 7>>)>>
                       \o (IF PauseCheck(pl) THEN <<Call("pause", <<>>)>> ELSE <<>>)
           /\ held' = HeldAfterKeyDown(held, e.code)
    /\ queue' = Tail(queue)
    /\ UNCHANGED <<probe, pc, frame, editor, now, times, start_time, elapsed_time,
                   info_elapsed_time, window, dims, arrived>>

\* Event::KeyUp { keycode: Some(keycode) }
HandleKeyUp ==
    /\ pc = "drain" /\ queue # <<>>
    /\ LET e == Head(queue)
           m == map_keycode(e.code)
       IN  /\ e.type = "KeyUp" /\ e.code # None
           /\ players' = IF m[1] # None THEN key_up(players, m[2], m[1]) ELSE players
           /\ calls' = IF m[1] # None THEN <<Call("key_up", <<m[2], m[1]>>)>> ELSE <<>>
           /\ held' = HeldAfterKeyUp(held, e.code)
    /\ queue' = Tail(queue)
    /\ UNCHANGED <<probe, pc, frame, editor, now, times, start_time, elapsed_time,
                   info_elapsed_time, px8, window, dims, arrived>>

\* Event::ControllerButtonDown { button }
HandleButtonDown ==
    /\ pc = "drain" /\ queue # <<>>
    /\ LET e == Head(queue)
           key == map_button(e.code)
       IN  /\ e.type = "ControllerButtonDown"
           /\ players' = IF key # None
                         THEN key_down(players, 0, key, FALSE, elapsed_time)
                         ELSE players
           /\ calls' = IF key # None
                       THEN <<Call("key_down", <<0, key, FALSE, elapsed_time>>)>>
                       ELSE <<>>
    /\ queue' = Tail(queue)
    /\ UNCHANGED <<held, probe, pc, frame, editor, now, times, start_time, elapsed_time,
                   info_elapsed_time, px8, window, dims, arrived>>

\* Event::ControllerButtonUp { button }
HandleButtonUp ==
    /\ pc = "drain" /\ queue # <<>>
    /\ LET e == Head(queue)
           key == map_button(e.code)
       IN  /\ e.type = "ControllerButtonUp"
           /\ players' = IF key # None THEN key_up(players, 0, key) ELSE players
           /\ calls' = IF key # None THEN <<Call("key_up", <<0, key>>)>> ELSE <<>>
    /\ queue' = Tail(queue)
    /\ UNCHANGED <<held, probe, pc, frame, editor, now, times, start_time, elapsed_time,
                   info_elapsed_time, px8, window, dims, arrived>>

\* Mutant: a weak-band value changes nothing.
AxisPlayers_WeakIgnored(pl, axis, value, t) ==
    LET m == map_axis(axis, value)
    IN  IF m = NoAxis THEN pl
        ELSE IF axis = "LeftX" /\ value = 128 THEN key_direc_hor_up(pl, 0)
        ELSE IF axis = "LeftY" /\ value = -129 THEN key_direc_ver_up(pl, 0)
        ELSE IF m[2] THEN key_down(pl, 0, m[1], FALSE, t)
        ELSE pl

\* Mutant: no centre-snap sentinel, the value goes through the bands.
AxisPlayers_NoSentinel(pl, axis, value, t) ==
    LET m == map_axis(axis, value)
    IN  IF m = NoAxis THEN pl
        ELSE IF m[2] THEN key_down(pl, 0, m[1], FALSE, t)
        ELSE key_up(pl, 0, m[1])

\* Mutant: a strong-band press first releases both directions of the axis.
AxisPlayers_StrongReleasesOpposite(pl, axis, value, t) ==
    LET m == map_axis(axis, value)
    IN  IF m = NoAxis THEN pl
        ELSE IF axis = "LeftX" /\ value = 128 THEN key_direc_hor_up(pl, 0)
        ELSE IF axis = "LeftY" /\ value = -129 THEN key_direc_ver_up(pl, 0)
        ELSE IF m[2]
        THEN key_down(IF axis = "LeftX" THEN key_direc_hor_up(pl, 0)
                      ELSE key_direc_ver_up(pl, 0),
                      0, m[1], FALSE, t)
        ELSE key_up(pl, 0, m[1])

\* The body of the ControllerAxisMotion arm: the players after it.
AxisPlayers(pl, axis, value, t) ==
    LET m == map_axis(axis, value)
    IN  IF m = NoAxis THEN pl
        ELSE IF axis = "LeftX" /\ value = 128 THEN key_direc_hor_up(pl, 0)
        ELSE IF axis = "LeftY" /\ value = -129 THEN key_direc_ver_up(pl, 0)
        ELSE IF m[2] THEN key_down(pl, 0, m[1], FALSE, t)
        ELSE key_up(pl, 0, m[1])

\* The body of the ControllerAxisMotion arm: the operations it invokes.
AxisCalls(axis, value, t) ==
    LET m == map_axis(axis, value)
    IN  IF m = NoAxis THEN <<>>
        ELSE IF axis = "LeftX" /\ value = 128
        THEN <<Call("key_direc_hor_up", <<0>>)>>
        ELSE IF axis = "LeftY" /\ value = -129
        THEN <<Call("key_direc_ver_up", <<0>>)>>
        ELSE IF m[2] THEN <<Call("key_down", <<0, m[1], FALSE, t>>)>>
        ELSE <<Call("key_up", <<0, m[1]>>)>>

\* Event::ControllerAxisMotion { axis, value }
HandleAxisMotion ==
    /\ pc = "drain" /\ queue # <<>>
    /\ LET e == Head(queue)
       IN  /\ e.type = "ControllerAxisMotion"
           /\ players' = AxisPlayers(players, e.code, e.value, elapsed_time)
           /\ calls' = AxisCalls(e.code, e.value, elapsed_time)
           /\ held' = HeldAfterAxis(held, e.code, e.value)
    /\ queue' = Tail(queue)
    /\ UNCHANGED <<probe, pc, frame, editor, now, times, start_time, elapsed_time,
                   info_elapsed_time, px8, window, dims, arrived>>

HandledTypes ==
    {"Quit", "SizeChanged", "KeyUp", "ControllerButtonDown",
     "ControllerButtonUp", "ControllerAxisMotion"}

\* ControllerDeviceAdded, the Joy* arms (logging only) and the _ => () arm,
\* which also takes a KeyDown or KeyUp whose keycode is None.
HandleIgnored ==
    /\ pc = "drain" /\ queue # <<>>
    /\ LET e == Head(queue)
       IN  \/ e.type \in LoggedTypes
           \/ e.type \in {"KeyDown", "KeyUp"} /\ e.code = None
           \/ e.type \notin HandledTypes \cup LoggedTypes \cup {"KeyDown"}
    /\ queue' = Tail(queue)
    /\ calls' = <<>>
    /\ UNCHANGED <<held, probe, pc, frame, editor, now, times, start_time, elapsed_time,
                   info_elapsed_time, players, px8, window, dims, arrived>>

\* Mutant: the drain stops with events still pending.
DrainEnd_LeavesPending ==
    /\ pc = "drain"
    /\ pc' = "tick"
    /\ calls' = <<>>
    /\ UNCHANGED <<held, probe, frame, editor, now, times, start_time, elapsed_time,
                   info_elapsed_time, players, px8, window, dims, queue, arrived>>

\* poll_iter() returns None: the for loop ends.
DrainEnd ==
    /\ pc = "drain" /\ queue = <<>>
    /\ pc' = "tick"
    /\ calls' = <<>>
    /\ UNCHANGED <<held, probe, frame, editor, now, times, start_time, elapsed_time,
                   info_elapsed_time, players, px8, window, dims, queue, arrived>>

(***************************************************************************)
(* match self.px8.state                                                    *)
(***************************************************************************)
\* The operations of a PAUSE tick.
TickPauseCalls(enter, up, down) ==
    <<Call("get_value_quick", <<0, 2>>), Call("get_value_quick", <<0, 3>>),
      Call("get_value_quick", <<0, 6>>),
      Call("update_pause", <<enter, up, down>>), Call("update", <<>>)>>

TickPause(d) ==
    /\ pc = "tick"
    /\ px8.state = "PAUSE"
    /\ LET up == get_value_quick(players, 0, 2) = 1
           down == get_value_quick(players, 0, 3) = 1
           enter == get_value_quick(players, 0, 6) = 1
       IN  /\ px8' \in update_pause(px8, enter, up, down)
           /\ calls' = TickPauseCalls(enter, up, down)
    /\ now' = now + d
    /\ pc' = "update_time"
    /\ UNCHANGED <<held, probe, frame, editor, times, start_time, elapsed_time,
                   info_elapsed_time, players, window, dims, queue, arrived>>

\* RUN and is_end(): break 'main
TickEnd ==
    /\ pc = "tick"
    /\ px8.state = "RUN"
    /\ is_end(px8)
    /\ pc' = "exited"
    /\ calls' = <<Call("is_end", <<>>)>>
    /\ UNCHANGED <<held, probe, frame, editor, now, times, start_time, elapsed_time,
                   info_elapsed_time, players, px8, window, dims, queue, arrived>>

\* Mutant: record() is invoked whatever is_recording() says.
TickRunCalls_RecordUnguarded(px) ==
    <<Call("is_end", <<>>), Call("call_update", <<>>),
      Call("call_draw", <<>>), Call("update", <<>>),
      Call("is_recording", <<>>), Call("record", <<>>)>>

\* The operations of a RUN tick that does not end; px is the engine when
\* is_recording() is asked.
TickRunCalls(px) ==
    <<Call("is_end", <<>>), Call("call_update", <<>>),
      Call("call_draw", <<>>), Call("update", <<>>),
      Call("is_recording", <<>>)>>
    \o (IF is_recording(px) THEN <<Call("record", <<>>)>> ELSE <<>>)

TickRun(d) ==
    /\ pc = "tick"
    /\ px8.state = "RUN"
    /\ ~is_end(px8)
    /\ px8' \in call_update(px8)
    /\ calls' = TickRunCalls(px8')
    /\ now' = now + d
    /\ pc' = "update_time"
    /\ UNCHANGED <<held, probe, frame, editor, times, start_time, elapsed_time,
                   info_elapsed_time, players, window, dims, queue, arrived>>

(***************************************************************************)
(* SdlFrontend::update_time                                                *)
(***************************************************************************)
UpdateTime ==
    /\ pc = "update_time"
    /\ LET elapsed == now - start_time
       IN  /\ info_elapsed_time' = elapsed
           /\ players' = players_update(players, elapsed)
           /\ calls' = <<Call("info.elapsed_time", <<elapsed>>),
                         Call("players.update", <<elapsed>>)>>
    /\ pc' = "blit"
    /\ UNCHANGED <<held, probe, frame, editor, now, times, start_time, elapsed_time,
                   px8, window, dims, queue, arrived>>

(***************************************************************************)
(* SdlFrontend::blit: renderer.blit, then FrameTimes::limit.               *)
(***************************************************************************)
Blit ==
    /\ pc = "blit"
    /\ LET d == FrameTimes_limit(times, now)
       IN  /\ now' = now + d
           /\ calls' = <<Call("blit", <<>>)>>
                       \o (IF d > 0 THEN <<Call("sleep", <<d>>)>> ELSE <<>>)
    /\ pc' = "loop"
    /\ UNCHANGED <<held, probe, frame, editor, times, start_time, elapsed_time,
                   info_elapsed_time, players, px8, window, dims, queue, arrived>>

(***************************************************************************)
(* Specification.                                                          *)
(***************************************************************************)
Next ==
    \/ \E e \in Events : Arrive(e)
    \/ \E size \in WindowSizes : Resize(size)
    \/ Main
    \/ \E d \in LoadDelays : LoadCartridge(d)
    \/ FrameStart
    \/ HandleQuit
    \/ HandleEscape
    \/ HandleSizeChanged
    \/ HandleKeyDown
    \/ HandleKeyUp
    \/ HandleButtonDown
    \/ HandleButtonUp
    \/ HandleAxisMotion
    \/ HandleIgnored
    \/ DrainEnd
    \/ \E d \in WorkDelays : TickPause(d)
    \/ TickEnd
    \/ \E d \in WorkDelays : TickRun(d)
    \/ UpdateTime
    \/ Blit

Spec == Init /\ [][Next]_vars

\* main(filename, false): a cartridge run outside the editor.
InitCartridge == Init /\ editor = FALSE

\* The loop fed with controller-axis events only.
AxisEvents ==
    {AxisMotion("LeftX", v) : v \in {-30000, -16384, -100, 100, 128, 16383, 30000}}
    \cup {AxisMotion("LeftY", v) : v \in {-30000, -129, -100, 100, 30000}}
    \cup {AxisMotion("RightX", 30000)}

NextAxis ==
    \/ \E e \in AxisEvents : Arrive(e)
    \/ Main
    \/ \E d \in LoadDelays : LoadCartridge(d)
    \/ FrameStart
    \/ HandleAxisMotion
    \/ DrainEnd
    \/ TickEnd
    \/ \E d \in WorkDelays : TickRun(d)
    \/ UpdateTime
    \/ Blit

SpecAxis == InitCartridge /\ [][NextAxis]_vars

(***************************************************************************)
(* map_axis on its own: every axis, every i16 value.                       *)
(***************************************************************************)
Axes == {"LeftX", "LeftY", "RightX", "RightY", "TriggerLeft", "TriggerRight"}

ProbeInput(axis, value) ==
    [fn |-> "map_axis", axis |-> axis, value |-> value, done |-> FALSE,
     out |-> NoAxis]

InitMapAxis ==
    /\ pc = "init"
    /\ frame = 0
    /\ editor = FALSE
    /\ now = 0
    /\ times = FrameTimes_new(0)
    /\ start_time = 0
    /\ elapsed_time = 0
    /\ info_elapsed_time = 0
    /\ players = PlayersNew
    /\ px8 = Px8New
    /\ window = InitialWindow
    /\ dims = window
    /\ queue = <<>>
    /\ arrived = 0
    /\ calls = <<>>
    /\ probe \in {ProbeInput(axis, value) : axis \in Axes, value \in I16Min..I16Max}
    /\ held = NoneHeld

ApplyMapAxis ==
    /\ probe.fn = "map_axis"
    /\ ~probe.done
    /\ probe' = [probe EXCEPT !.done = TRUE,
                              !.out = map_axis(probe.axis, probe.value)]
    /\ UNCHANGED <<pc, frame, editor, now, times, start_time, elapsed_time,
                   info_elapsed_time, players, px8, window, dims, queue,
                   arrived, calls, held>>

NextMapAxis == ApplyMapAxis

SpecMapAxis == InitMapAxis /\ [][NextMapAxis]_vars

\* The loop fed with input events only: no hotkey, no resize, no exit event.
NextInput ==
    \/ \E e \in InputEvents : Arrive(e)
    \/ Main
    \/ \E d \in LoadDelays : LoadCartridge(d)
    \/ FrameStart
    \/ HandleKeyDown
    \/ HandleKeyUp
    \/ HandleButtonDown
    \/ HandleButtonUp
    \/ HandleAxisMotion
    \/ DrainEnd
    \/ TickEnd
    \/ \E d \in WorkDelays : TickRun(d)
    \/ UpdateTime
    \/ Blit

SpecInput == InitCartridge /\ [][NextInput]_vars

(***************************************************************************)
(* The loop with no input, under loads and ticks of varied duration: the   *)
(* frame clock with frames that are early, on time and late.               *)
(***************************************************************************)
ClockDelays == {0, frame_duration \div 4, frame_duration, 3 * frame_duration}

NextClock ==
    \/ Main
    \/ \E d \in ClockDelays : LoadCartridge(d)
    \/ FrameStart
    \/ DrainEnd
    \/ TickEnd
    \/ \E d \in ClockDelays : TickRun(d)
    \/ UpdateTime
    \/ Blit

SpecClock == InitCartridge /\ [][NextClock]_vars

(***************************************************************************)
(* The pacing run: no input, and a clock that advances only in sleep (the  *)
(* load and the tick take no time).                                        *)
(***************************************************************************)
NoDelay == 0

FramePace == FrameBegin(PaceFrames)

NextPace ==
    \/ Main
    \/ LoadCartridge(NoDelay)
    \/ FramePace
    \/ DrainEnd
    \/ TickEnd
    \/ TickRun(NoDelay)
    \/ UpdateTime
    \/ Blit

SpecPace == InitCartridge /\ [][NextPace]_vars

(***************************************************************************)
(* Properties.                                                             *)
(***************************************************************************)
\* A step of the drain that takes the event at the head of the queue.
PollStep == pc = "drain" /\ queue # <<>> /\ queue' = Tail(queue)

\* The slot of a key: the inverse of SlotKey.
KeySlot(k) ==
    CASE k = "Left" -> 0
      [] k = "Right" -> 1
      [] k = "Up" -> 2
      [] k = "Down" -> 3
      [] k = "O" -> 4
      [] k = "X" -> 5
      [] k = "Enter" -> 6
      [] k = "Pause" -> 7

Reads(pl, p, k) == get_value_quick(pl, p, KeySlot(k))

CountOp(cs, op) == Cardinality({i \in 1..Len(cs) : cs[i].op = op})

OpsOf(cs) == {cs[i].op : i \in 1..Len(cs)}

IsAxisEvent(e) == e.type = "ControllerAxisMotion" /\ e.code \in {"LeftX", "LeftY"}

StrongBand(v) == v <= -16384 \/ v >= 16384

IsSentinel(e) ==
    \/ e.code = "LeftX" /\ e.value = 128
    \/ e.code = "LeftY" /\ e.value = -129

\* The direction an axis value points to, and the two directions of an axis.
AxisKey(axis, v) ==
    IF axis = "LeftX" THEN (IF v < 0 THEN "Left" ELSE "Right")
    ELSE (IF v < 0 THEN "Up" ELSE "Down")

AxisKeys(axis) == IF axis = "LeftX" THEN {"Left", "Right"} ELSE {"Up", "Down"}

OppositeKey(k) ==
    CASE k = "Left" -> "Right" [] k = "Right" -> "Left"
      [] k = "Up" -> "Down" [] k = "Down" -> "Up"

\* The (player, key) pairs an event is a press edge for.
PressEdges(e) ==
    IF e.type = "KeyDown" /\ e.code \notin {None, "Escape"}
       /\ map_keycode(e.code)[1] # None
    THEN {<<map_keycode(e.code)[2], map_keycode(e.code)[1]>>}
    ELSE IF e.type = "ControllerButtonDown" /\ map_button(e.code) # None
    THEN {<<0, map_button(e.code)>>}
    ELSE IF IsAxisEvent(e) /\ StrongBand(e.value)
    THEN {<<0, AxisKey(e.code, e.value)>>}
    ELSE {}

\* The (player, key) pairs an event is a release edge for.
ReleaseEdges(e) ==
    IF e.type = "KeyUp" /\ e.code # None /\ map_keycode(e.code)[1] # None
    THEN {<<map_keycode(e.code)[2], map_keycode(e.code)[1]>>}
    ELSE IF e.type = "ControllerButtonUp" /\ map_button(e.code) # None
    THEN {<<0, map_button(e.code)>>}
    ELSE IF IsAxisEvent(e) /\ IsSentinel(e)
    THEN {<<0, k>> : k \in AxisKeys(e.code)}
    ELSE IF IsAxisEvent(e) /\ ~StrongBand(e.value)
    THEN {<<0, AxisKey(e.code, e.value)>>}
    ELSE {}

\* C1: after each drained event a key reads 1 iff the most recent event that
\* maps to that (player, key) was a press edge: a drained event sets the keys
\* it presses to 1, the keys it releases to 0 and changes no other key, and
\* no other step of the front-end changes what a key reads.
C1_LastEdgeDecides ==
    [][/\ PollStep =>
            LET pressed == PressEdges(Head(queue))
                released == ReleaseEdges(Head(queue))
            IN  \A p \in Players : \A k \in PX8Key :
                    Reads(players', p, k) =
                        IF <<p, k>> \in pressed THEN 1
                        ELSE IF <<p, k>> \in released THEN 0
                        ELSE Reads(players, p, k)
       /\ ~PollStep =>
            \/ players' = players
            \/ \A p \in Players : \A k \in PX8Key :
                  Reads(players', p, k) = Reads(players, p, k)]_vars

\* Left of player 0 and Right of player 1 are held while a weak-band axis
\* motion has just released Right of player 0.
C1_Witness ==
    /\ pc = "drain"
    /\ Reads(players, 0, "Left") = 1
    /\ Reads(players, 1, "Right") = 1
    /\ Reads(players, 0, "Right") = 0
    /\ Len(calls) = 1
    /\ calls[1].op = "key_up"
    /\ calls[1].args = <<0, "Right">>

\* C2: the timestamp passed as now to every key_down issued while draining
\* is the session elapsed time that update_time computed at the end of the
\* previous frame (the value it also wrote to Info).
C2_PressCarriesElapsedTime ==
    \A i \in 1..Len(calls) :
        calls[i].op = "key_down" => calls[i].args[4] = info_elapsed_time

\* C3: a KeyDown(P) drained while the engine is in RUN invokes pause() exactly
\* once inside the handling of that event, before the engine tick of the
\* frame: the engine is in PAUSE when the handler returns to the drain.
C3_PauseOnP ==
    [][(PollStep /\ Head(queue).type = "KeyDown" /\ Head(queue).code = "P"
        /\ px8.state = "RUN")
       => /\ CountOp(calls', "pause") = 1
          /\ px8'.state = "PAUSE"
          /\ pc' = "drain"
          /\ frame' = frame]_vars

C3_Witness ==
    /\ pc = "drain"
    /\ Len(calls) = 3
    /\ calls[1].op = "key_down"
    /\ calls[1].args[2] = "Pause"
    /\ calls[3].op = "pause"
    /\ px8.state = "PAUSE"

IsExitEvent(e) ==
    e.type = "Quit" \/ (e.type = "KeyDown" /\ e.code = "Escape")

\* C4: a drained Quit or KeyDown(Escape) ends the loop: the handler invokes
\* nothing (no key_down, no hotkey, no pause check), and once the loop has
\* exited no event is handled, no tick, update_time, blit or sleep runs and
\* no frame starts.
C4_QuitEscapeTerminate ==
    [][/\ (PollStep /\ IsExitEvent(Head(queue)))
          => /\ pc' = "exited"
             /\ calls' = <<>>
             /\ players' = players
             /\ px8' = px8
       /\ pc = "exited"
          => UNCHANGED <<pc, frame, now, times, info_elapsed_time, players,
                         px8, dims, queue, calls>>]_vars

\* The loop has exited in frame 2 through Quit or Escape: the engine has not
\* ended, and one more frame was allowed.
C4_Witness ==
    /\ pc = "exited"
    /\ frame = 2
    /\ frame < MaxFrames
    /\ calls = <<>>
    /\ ~is_end(px8)

\* C5: the loop ends only through a drained Quit, a drained KeyDown(Escape)
\* or is_end() at the tick of a RUN frame; in every other case it goes on.
C5_OnlyThreeExits ==
    [][(Running /\ ~Running')
       => \/ (PollStep /\ IsExitEvent(Head(queue)))
          \/ (pc = "tick" /\ px8.state = "RUN" /\ is_end(px8)
              /\ OpsOf(calls') = {"is_end"})]_vars

IsF4(e) == e.type = "KeyDown" /\ e.code = "F4"

\* C6: each drained KeyDown(F4) invokes exactly one of start_record and
\* stop_record, start_record("record-<stamp>.gif") when not recording and
\* stop_record(scale factor) when recording, and flips the recording flag;
\* no other step of the front-end changes the flag.
C6_F4Alternates ==
    [][/\ (PollStep /\ IsF4(Head(queue)))
          => IF ~is_recording(px8)
             THEN /\ CountOp(calls', "start_record") = 1
                  /\ CountOp(calls', "stop_record") = 0
                  /\ \A i \in 1..Len(calls') :
                        calls'[i].op = "start_record"
                        => calls'[i].args = <<"record-<stamp>.gif">>
                  /\ is_recording(px8')
             ELSE /\ CountOp(calls', "stop_record") = 1
                  /\ CountOp(calls', "start_record") = 0
                  /\ \A i \in 1..Len(calls') :
                        calls'[i].op = "stop_record"
                        => calls'[i].args = <<"scale.factor">>
                  /\ ~is_recording(px8')
       /\ ~(PollStep /\ IsF4(Head(queue)))
          => /\ is_recording(px8') = is_recording(px8)
             /\ (calls' # calls => OpsOf(calls') \cap {"start_record", "stop_record"} = {})]_vars

\* A second F4 has just stopped the recording the first one started.
C6_Witness ==
    /\ pc = "drain"
    /\ CountOp(calls, "stop_record") = 1
    /\ ~is_recording(px8)
    /\ arrived >= 2

EditorOps == {"save_current_cartridge", "switch_code", "call_init"}

\* C7: with editor false a KeyDown(F5) or KeyDown(F6) invokes none of
\* save_current_cartridge, switch_code, call_init and does nothing but the
\* pause check; with editor true F5 invokes save_current_cartridge once and
\* F6 invokes switch_code(path) and then call_init, inside the drain.
C7_EditorHotkeys ==
    [][(PollStep /\ Head(queue).type = "KeyDown"
        /\ Head(queue).code \in {"F5", "F6"})
       => /\ pc' = "drain"
          /\ players' = players
          /\ ~editor
             => /\ OpsOf(calls') \cap EditorOps = {}
                /\ OpsOf(calls') \subseteq {"get_value_quick", "pause"}
                /\ px8' = IF Reads(players, 0, "Pause") = 1 THEN pause(px8) ELSE px8
          /\ (editor /\ Head(queue).code = "F5")
             => /\ CountOp(calls', "save_current_cartridge") = 1
                /\ calls'[1].op = "save_current_cartridge"
                /\ OpsOf(calls') \cap {"switch_code", "call_init"} = {}
          /\ (editor /\ Head(queue).code = "F6")
             => /\ Len(calls') >= 2
                /\ calls'[1].op = "switch_code"
                /\ calls'[1].args = <<"filename">>
                /\ calls'[2].op = "call_init"
                /\ CountOp(calls', "switch_code") = 1
                /\ CountOp(calls', "call_init") = 1
                /\ CountOp(calls', "save_current_cartridge") = 0]_vars

\* F6 has just hot-swapped the code in editor mode.
C7_Witness ==
    /\ editor
    /\ pc = "drain"
    /\ Len(calls) >= 2
    /\ calls[1].op = "switch_code"
    /\ calls[2].op = "call_init"

\* The table of C8: the band of a value on a mapped axis.
BandOf(neg, pos, v) ==
    IF v >= -32768 /\ v <= -16384 THEN <<neg, TRUE>>
    ELSE IF v >= -16383 /\ v <= -1 THEN <<neg, FALSE>>
    ELSE IF v >= 0 /\ v <= 16383 THEN <<pos, FALSE>>
    ELSE <<pos, TRUE>>

\* C8: map_axis is total on LeftX and LeftY over the i16 range and yields
\* the key and strong flag of the value's band (Left/Right on LeftX, Up/Down
\* on LeftY, one result per value); every other axis yields None.
C8_MapAxisBands ==
    (probe.fn = "map_axis" /\ probe.done)
    => /\ probe.axis = "LeftX" => probe.out = BandOf("Left", "Right", probe.value)
       /\ probe.axis = "LeftY" => probe.out = BandOf("Up", "Down", probe.value)
       /\ probe.axis \notin {"LeftX", "LeftY"} => probe.out = NoAxis
       /\ probe.axis \in {"LeftX", "LeftY"} => probe.out # NoAxis

\* map_axis has been applied to the first value of the weak negative band.
C8_Witness ==
    /\ probe.fn = "map_axis"
    /\ probe.done
    /\ probe.axis = "LeftX"
    /\ probe.value = -16383
    /\ probe.out = <<"Left", FALSE>>

IsHorSentinel(e) ==
    e.type = "ControllerAxisMotion" /\ e.code = "LeftX" /\ e.value = 128

IsVerSentinel(e) ==
    e.type = "ControllerAxisMotion" /\ e.code = "LeftY" /\ e.value = -129

OthersUnchanged(keys) ==
    \A p \in Players : \A k \in PX8Key :
        (p # 0 \/ k \notin keys) => Reads(players', p, k) = Reads(players, p, k)

\* C9: LeftX = 128 releases Left and Right of player 0 and LeftY = -129
\* releases Up and Down of player 0, whatever was pressed, and changes no
\* other key of player 0 and no key of player 1.
C9_SentinelReleasesBoth ==
    [][/\ (PollStep /\ IsHorSentinel(Head(queue)))
          => /\ get_value_quick(players', 0, 0) = 0
             /\ get_value_quick(players', 0, 1) = 0
             /\ OthersUnchanged({"Left", "Right"})
       /\ (PollStep /\ IsVerSentinel(Head(queue)))
          => /\ get_value_quick(players', 0, 2) = 0
             /\ get_value_quick(players', 0, 3) = 0
             /\ OthersUnchanged({"Up", "Down"})]_vars

\* The horizontal sentinel has just been handled while Up of player 0 and a
\* key of player 1 stay held.
C9_Witness ==
    /\ Len(calls) = 1
    /\ calls[1].op = "key_direc_hor_up"
    /\ get_value_quick(players, 0, 0) = 0
    /\ get_value_quick(players, 0, 1) = 0
    /\ get_value_quick(players, 0, 2) = 1
    /\ Reads(players, 1, "Right") = 1

IsWeakMotion(e) ==
    IsAxisEvent(e) /\ ~StrongBand(e.value) /\ ~IsSentinel(e)

\* C10 as stated: a weak-band motion that follows a strong-band press on the
\* same axis leaves the pressed direction reading 1.
C10_WeakBandKeepsPressed ==
    [][(PollStep /\ IsWeakMotion(Head(queue)))
       => \A k \in AxisKeys(Head(queue).code) :
            Reads(players, 0, k) = 1 => Reads(players', 0, k) = 1]_vars

\* C10 amended: a weak-band motion releases the direction its value points
\* to and leaves the opposite direction of the axis as it was; a pressed
\* direction stays 1 only under a weak value of the opposite sign.
C10_WeakBandReleasesOwnSide ==
    [][(PollStep /\ IsWeakMotion(Head(queue)))
       => LET k == AxisKey(Head(queue).code, Head(queue).value)
          IN  /\ Reads(players', 0, k) = 0
              /\ Reads(players', 0, OppositeKey(k)) = Reads(players, 0, OppositeKey(k))]_vars

\* A weak negative LeftX value has just released Left while Right, pressed
\* by a strong-band motion, still reads 1.
C10_Witness ==
    /\ Len(calls) = 1
    /\ calls[1].op = "key_up"
    /\ calls[1].args = <<0, "Left">>
    /\ Reads(players, 0, "Right") = 1
    /\ Reads(players, 0, "Left") = 0

\* C11: keyboard and stick compose by OR on a direction of player 0: the
\* direction reads 1 whenever the keyboard or the stick is holding it, so a
\* weak-band or sentinel motion never clears a direction the keyboard holds
\* and a KeyUp never clears a direction the stick holds.
C11_SourcesComposeByOr ==
    \A k \in held.kbd \cup held.axis : Reads(players, 0, k) = 1

\* A step that begins an iteration of 'main.
FrameStartStep == pc = "loop" /\ frame' = frame + 1

\* C12: in every frame the mouse read does not fail and writes
\* mx = raw.x * SCREEN_WIDTH / width and my = raw.y * SCREEN_HEIGHT / height
\* (integer arithmetic) for the window size, once the renderer has taken
\* that size over, with the result inside [0, SCREEN_WIDTH) x
\* [0, SCREEN_HEIGHT).
C12_MouseRescale ==
    [][(FrameStartStep /\ dims = window)
       => /\ pc' # "panicked"
          /\ players'.mx = (players'.mouse[1] * SCREEN_WIDTH) \div dims[1]
          /\ players'.my = (players'.mouse[2] * SCREEN_HEIGHT) \div dims[2]
          /\ players'.mx \in 0..(SCREEN_WIDTH - 1)
          /\ players'.my \in 0..(SCREEN_HEIGHT - 1)]_vars

\* C13: the schedule is drift-free: after new() or reset() at t0 and K
\* update() calls target_time = t0 + (K+1) * frame_duration whatever the
\* instants of the calls; update() sets last_time to the instant of the
\* call and returns that instant minus the previous last_time, and nothing
\* else in the loop moves the clock.
C13_DriftFreeSchedule ==
    /\ [](times.target_time = start_time + (frame + 1) * frame_duration)
    /\ [][/\ FrameStartStep
             => /\ times'.last_time = now
                /\ calls'[1].op = "times.update"
                /\ calls'[1].args = <<now - times.last_time>>
          /\ (~FrameStartStep /\ pc # "init") => times' = times]_vars

\* The third update() has run late: the target, 4 frame durations after the
\* reset, lies behind the instant of the call and was not clamped to it.
C13_Witness ==
    /\ frame = 3
    /\ pc = "drain"
    /\ times.target_time = start_time + 4 * frame_duration
    /\ times.last_time > times.target_time
    /\ calls[1].op = "times.update"
    /\ calls[1].args[1] > frame_duration

\* C14: limit() sleeps exactly target_time - now when now < target_time and
\* does not sleep when now >= target_time, and leaves the clock state as it
\* is: a frame that ends past its target goes on without sleeping.
C14_LimitSleepsToTarget ==
    [][pc = "blit"
       => /\ times' = times
          /\ IF now < times.target_time
             THEN /\ CountOp(calls', "sleep") = 1
                  /\ calls'[Len(calls')].op = "sleep"
                  /\ calls'[Len(calls')].args = <<times.target_time - now>>
                  /\ now' = times.target_time
             ELSE /\ CountOp(calls', "sleep") = 0
                  /\ now' = now]_vars

\* After a stall (the load) two frames have run without sleeping, and the
\* third, whose target is ahead again, has just slept.
C14_Witness ==
    /\ frame = 3
    /\ pc = "loop"
    /\ CountOp(calls, "sleep") = 1
    /\ now = times.target_time
    /\ now - start_time < 3 * frame_duration + 3 * frame_duration

\* C15: with a clock that advances only while sleeping, every frame's blit
\* requests exactly one sleep and no other step requests one, so 60
\* iterations make 60 sleep requests; the time slept when the 60th
\* iteration ends is at least one second.
C15_SixtyFramesOneSecond ==
    /\ [][/\ pc = "blit" => CountOp(calls', "sleep") = 1
          /\ pc # "blit" => CountOp(calls', "sleep") = 0]_vars
    /\ []((frame = 60 /\ pc = "loop") => now - start_time >= NanosPerSec)

\* The 60th iteration has ended: 61 frame durations were slept, two of them
\* by the first frame.
C15_Witness ==
    /\ frame = 60
    /\ pc = "loop"
    /\ CountOp(calls, "sleep") = 1
    /\ now - start_time = 61 * frame_duration
    /\ now - start_time >= NanosPerSec

\* The order of the phases of a frame, as positions of the thread.
PhaseSteps ==
    {<<"init", "load">>, <<"load", "loop">>, <<"loop", "drain">>,
     <<"drain", "tick">>, <<"tick", "update_time">>,
     <<"update_time", "blit">>, <<"blit", "loop">>}

OpSeq(cs) == [i \in 1..Len(cs) |-> cs[i].op]

HotkeyOps ==
    {"toggle_info_overlay", "screenshot", "start_record", "stop_record",
     "save_current_cartridge", "switch_code"}

TickOps ==
    {"update_pause", "update", "is_end", "call_update", "call_draw", "record"}

IsPrefix(q, r) == Len(q) <= Len(r) /\ \A i \in 1..Len(q) : r[i] = q[i]

\* C16: in a frame that does not exit the phases run in the order
\* FrameClock.update and mouse read, event drain until the queue is empty
\* (hotkeys inside it), engine tick, update_time, blit, limit() sleep; the
\* players state the drain leaves is the one the tick reads, and an event
\* that arrives after the drain stays queued until the drain of the next
\* frame.
C16_PhaseOrder ==
    [][/\ (pc' # pc /\ Running') => <<pc, pc'>> \in PhaseSteps
       /\ (FrameStartStep /\ Running')
          => OpSeq(calls') = <<"times.update", "mouse_state", "get_dimensions",
                               "set_mouse_x", "set_mouse_y", "set_mouse_state">>
       /\ (pc = "drain" /\ pc' = "tick") => (queue = <<>> /\ players' = players)
       /\ (calls' # calls /\ OpsOf(calls') \cap HotkeyOps # {}) => PollStep
       /\ (calls' # calls /\ OpsOf(calls') \cap TickOps # {}) => pc = "tick"
       /\ (pc = "tick" /\ pc' = "update_time")
          => /\ OpsOf(calls') \cap TickOps # {}
             /\ players' = players
       /\ (pc = "update_time")
          => /\ pc' = "blit"
             /\ OpSeq(calls') = <<"info.elapsed_time", "players.update">>
       /\ (pc = "blit")
          => /\ pc' = "loop"
             /\ OpSeq(calls') \in {<<"blit">>, <<"blit", "sleep">>}
       /\ (pc # "drain") => IsPrefix(queue, queue')
       /\ (queue' # queue /\ ~IsPrefix(queue, queue')) => PollStep
       /\ (pc = "loop" /\ pc' = "drain") => frame' = frame + 1
       /\ (pc' = pc \/ pc # "loop") => frame' = frame]_vars

\* The tick of frame 1 has run with an event pending that arrived after the
\* drain: it waits for the drain of frame 2.
C16_Witness ==
    /\ pc = "update_time"
    /\ frame = 1
    /\ queue # <<>>
    /\ Len(calls) >= 2
    /\ calls[2].op = "call_update"

InTickOps(o) == o \in TickOps

\* The engine operations among the operations a step invokes, in order.
EngineSeq(cs) == SelectSeq(OpSeq(cs), InTickOps)

ArgsOf(cs, op) == {cs[i].args : i \in {j \in 1..Len(cs) : cs[j].op = op}}

\* C17: the tick branches on the engine state it finds after the drain. A
\* PAUSE tick invokes update_pause(enter, up, down), with the three values
\* read from slots 6, 2, 3 of player 0, then update(), and nothing of
\* call_update, call_draw, record. A RUN tick with is_end() false invokes
\* call_update, call_draw, update in that order and then record() iff
\* is_recording().
C17_TickBranches ==
    [][(pc = "tick" /\ pc' # "tick")
       => /\ px8.state = "PAUSE"
             => /\ pc' = "update_time"
                /\ EngineSeq(calls') = <<"update_pause", "update">>
                /\ ArgsOf(calls', "update_pause") =
                      {<<get_value_quick(players, 0, 6) = 1,
                         get_value_quick(players, 0, 2) = 1,
                         get_value_quick(players, 0, 3) = 1>>}
          /\ (px8.state = "RUN" /\ is_end(px8))
             => /\ pc' = "exited"
                /\ EngineSeq(calls') = <<"is_end">>
          /\ (px8.state = "RUN" /\ ~is_end(px8))
             => /\ pc' = "update_time"
                /\ EngineSeq(calls') =
                      <<"is_end", "call_update", "call_draw", "update">>
                      \o (IF is_recording(px8') THEN <<"record">> ELSE <<>>)]_vars

\* A PAUSE tick has just run while a recording is on: update_pause and
\* update were invoked, record was not.
C17_Witness ==
    /\ pc = "update_time"
    /\ px8.state = "PAUSE"
    /\ is_recording(px8)
    /\ EngineSeq(calls) = <<"update_pause", "update">>

EngineOps ==
    TickOps \cup HotkeyOps
    \cup {"init", "load_cartridge", "call_init", "pause", "is_recording"}

IsHotSwap(e) == e.type = "KeyDown" /\ e.code = "F6"

\* C19: reset() runs after each break of wall-clock continuity and before
\* the next update(): when the load has ended, and when an F6 hot-swap has
\* ended, the clock is anchored at that instant, last_time = now and
\* target_time = now + frame_duration.
C19_ResetAfterBreak ==
    /\ []((pc = "loop" /\ frame = 0) => times = FrameTimes_reset(times, now))
    /\ [][(PollStep /\ IsHotSwap(Head(queue)) /\ editor)
          => times' = FrameTimes_reset(times, now')]_vars

IsKeyDown(e) == e.type = "KeyDown" /\ e.code \notin {None, "Escape"}

\* C20: every drained KeyDown of a keycode other than Escape - mapped or
\* not, hotkey or not, repeat or not - invokes pause() once when slot 7 of
\* player 0 reads 1 after its key_down, whatever the engine state, and not
\* otherwise; no other step of the front-end invokes pause().
C20_PauseOnEveryKeyDown ==
    [][/\ (PollStep /\ IsKeyDown(Head(queue)))
          => /\ CountOp(calls', "pause") =
                   (IF get_value_quick(players', 0, 7) = 1 THEN 1 ELSE 0)
             /\ get_value_quick(players', 0, 7) = 1 => px8'.state = "PAUSE"
             /\ Head(queue).code # "P"
                => get_value_quick(players', 0, 7) = get_value_quick(players, 0, 7)
       /\ (~(PollStep /\ IsKeyDown(Head(queue))) /\ calls' # calls)
          => CountOp(calls', "pause") = 0]_vars

\* With P held since an earlier event, a KeyDown that maps to no console
\* key has just invoked pause() again.
C20_Witness ==
    /\ pc = "drain"
    /\ Len(calls) = 2
    /\ calls[1].op = "get_value_quick"
    /\ calls[2].op = "pause"
    /\ arrived >= 2

IsStrongMotion(e) == IsAxisEvent(e) /\ StrongBand(e.value)

\* C21: with axis events as the only input, a strong-band motion presses the
\* direction its value points to and leaves the opposite direction of the
\* axis, and every other key, as it was, so both directions of an axis can
\* read 1 together; a direction that reads 1 goes back to 0 only through a
\* weak-band or sentinel motion.
C21_StrongPressKeepsOpposite ==
    [][/\ (PollStep /\ IsStrongMotion(Head(queue)))
          => LET k == AxisKey(Head(queue).code, Head(queue).value)
             IN  /\ Reads(players', 0, k) = 1
                 /\ Reads(players', 0, OppositeKey(k)) =
                       Reads(players, 0, OppositeKey(k))
                 /\ OthersUnchanged({k})
       /\ \A k \in Directions :
            (Reads(players, 0, k) = 1 /\ Reads(players', 0, k) = 0)
            => /\ PollStep
               /\ IsWeakMotion(Head(queue)) \/ (IsAxisEvent(Head(queue))
                                                 /\ IsSentinel(Head(queue)))
               /\ k \in AxisKeys(Head(queue).code)]_vars

\* LeftX = -30000 has just pressed Left while Right, pressed by an earlier
\* LeftX = 30000, still reads 1: slots 0 and 1 both read 1.
C21_Witness ==
    /\ Len(calls) = 1
    /\ calls[1].op = "key_down"
    /\ calls[1].args[2] = "Left"
    /\ get_value_quick(players, 0, 0) = 1
    /\ get_value_quick(players, 0, 1) = 1

====
